---- MODULE Spec2Model ----
(***************************************************************************)
(* Model of pulse_id_sql_interface.py: a Streamlit script that is run from *)
(* top to bottom on every user interaction.  The state is the Streamlit    *)
(* session state; one action is one script run triggered by one button     *)
(* (the handler of that button followed by the rendering code that the     *)
(* same run executes).  Remote calls (marketplace API, language model)     *)
(* are inputs chosen from small sets.                                      *)
(***************************************************************************)
EXTENDS Integers, Sequences, FiniteSets, TLC

VARIABLES
    offer_params,      \* st.session_state.offer_params
    offer_created,     \* st.session_state.offer_created
    adjusted_params,   \* st.session_state.adjusted_params
    pending_offers,    \* st.session_state.pending_offers
    filtered_offers,   \* st.session_state.filtered_offers
    action,            \* the button whose click started the last script run
    message,           \* st.error / st.warning issued by the last handler
    crash,             \* where the last script run died of an uncaught exception
    llm,               \* what the language model call of the last run returned
    remote,            \* what the marketplace calls of the last refresh returned
    fetched,           \* the 'offers' field of the listing body of the last refresh
    prev_filtered      \* filtered_offers before the last script run

vars == <<offer_params, offer_created, adjusted_params, pending_offers,
          filtered_offers, action, message, crash, llm, remote, fetched,
          prev_filtered>>

draft_vars == <<offer_params, offer_created, adjusted_params>>

-----------------------------------------------------------------------------
(* Bounds *)

MaxOffers == 2          \* longest offer list the marketplace returns

-----------------------------------------------------------------------------
(* Program constants *)

HoursPerDay == 24
ExpiringDays == 7
HighValueThreshold == 50
FarFuture == 9999

-----------------------------------------------------------------------------
(* Values *)

\* Python None / a Python list, for the two offer collections
None == [some |-> FALSE, v |-> <<>>]
List(s) == [some |-> TRUE, v |-> s]

\* Python truthiness of a collection: None and [] are falsy
Truthy(x) == x.some /\ x.v # <<>>

\* duration.to of an offer: missing, the sentinel "No end date", or a
\* "%Y-%m-%d %H:%M" timestamp (hours relative to a reference instant)
NoExpiry == [kind |-> "missing", t |-> 0]
NoEndDate == [kind |-> "No end date", t |-> 0]
Date(h) == [kind |-> "date", t |-> h]

\* budget of an offer: absent or a number
NoBudget == [has |-> FALSE, amount |-> 0]
Budget(n) == [has |-> TRUE, amount |-> n]

Offer(i, to, b) == [id |-> i, to |-> to, budget |-> b]

Offers ==
    { Offer(1, Date(ExpiringDays * HoursPerDay), Budget(HighValueThreshold + 1)),
      Offer(2, Date((ExpiringDays + 1) * HoursPerDay), Budget(HighValueThreshold)),
      Offer(3, NoExpiry, NoBudget),
      Offer(4, NoEndDate, Budget(2 * HighValueThreshold)) }

\* ids the language model may name: the offers' ids and one unknown id
UnknownId == Cardinality(Offers) + 1
AllIds == {o.id : o \in Offers} \cup {UnknownId}

\* datetime.now() at the moment of a click, in hours
Nows == {0, HoursPerDay \div 2}

OfferSeqs == UNION {[1..n -> Offers] : n \in 0..MaxOffers}

Ids(s) == {s[i].id : i \in 1..Len(s)}

RECURSIVE IsSubseq(_, _)
IsSubseq(s, t) ==
    IF s = <<>> THEN TRUE
    ELSE IF t = <<>> THEN FALSE
    ELSE IF Head(s) = Head(t) THEN IsSubseq(Tail(s), Tail(t))
    ELSE IsSubseq(s, Tail(t))

-----------------------------------------------------------------------------
(* Marketplace client *)

\* The 'offers' field of a listing body: absent, null, or a list
AbsentField == [present |-> FALSE, val |-> None]
Field(x) == [present |-> TRUE, val |-> x]

OffersFields == {AbsentField, Field(None)} \cup {Field(List(s)) : s \in OfferSeqs}

\* What the HTTP exchanges of one refresh return.
\*   auth:    "ok" | "not_ok" (status not OK) | "malformed" (body without
\*            data.auth[0] tokens, or not JSON)
\*   listing: "ok" | "not_200" | "not_json" | "not_sent" (authentication
\*            failed, so the listing request is never made)
\*   object:  the listing body is a JSON object (has .get)
\*   offers:  the 'offers' field of that object
RemoteResults ==
    [auth : {"not_ok", "malformed"}, listing : {"not_sent"},
     object : {FALSE}, offers : {AbsentField}]
    \cup [auth : {"ok"}, listing : {"not_200", "not_json"},
          object : {FALSE}, offers : {AbsentField}]
    \cup [auth : {"ok"}, listing : {"ok"}, object : {FALSE}, offers : {AbsentField}]
    \cup [auth : {"ok"}, listing : {"ok"}, object : {TRUE}, offers : OffersFields]

authenticate_user(r) ==
    IF r.auth = "not_ok" THEN [raised |-> TRUE, why |-> "auth_failed"]
    ELSE IF r.auth = "malformed" THEN [raised |-> TRUE, why |-> "auth_malformed"]
    ELSE [raised |-> FALSE, why |-> "ok"]

get_pending_offers(r) ==
    IF r.listing = "not_200" THEN [raised |-> TRUE, why |-> "listing_failed"]
    ELSE IF r.listing = "not_json" THEN [raised |-> TRUE, why |-> "listing_malformed"]
    ELSE [raised |-> FALSE, why |-> "ok"]

\* offers.get('offers', [])
OffersGet(field) == IF field.present THEN field.val ELSE List(<<>>)

\* Faulty variant of fetch_pending_offers: a failure empties the collection
fetch_pending_offers_clearing(r, pending) ==
    IF authenticate_user(r).raised
    THEN [pending_offers |-> List(<<>>), error |-> TRUE, why |-> authenticate_user(r).why]
    ELSE IF get_pending_offers(r).raised
    THEN [pending_offers |-> List(<<>>), error |-> TRUE, why |-> get_pending_offers(r).why]
    ELSE IF ~r.object
    THEN [pending_offers |-> List(<<>>), error |-> TRUE, why |-> "listing_malformed"]
    ELSE [pending_offers |-> OffersGet(r.offers), error |-> FALSE, why |-> "ok"]

\* fetch_pending_offers(): the new pending_offers, whether st.error was
\* called, and which step failed
fetch_pending_offers(r, pending) ==
    IF authenticate_user(r).raised
    THEN [pending_offers |-> pending, error |-> TRUE, why |-> authenticate_user(r).why]
    ELSE IF get_pending_offers(r).raised
    THEN [pending_offers |-> pending, error |-> TRUE, why |-> get_pending_offers(r).why]
    ELSE IF ~r.object
    THEN [pending_offers |-> pending, error |-> TRUE, why |-> "listing_malformed"]
    ELSE [pending_offers |-> OffersGet(r.offers), error |-> FALSE, why |-> "ok"]

-----------------------------------------------------------------------------
(* Offer filter engine *)

\* What the chat completion of a search returns.
\*   "client_error":      the client or the request raises
\*   "not_json":          the content is not valid JSON
\*   "json_non_object":   valid JSON that is not an object (no .get)
\*   "no_matching_ids":   a JSON object without the key matching_ids
\*   "ids_not_container": matching_ids is null or a number
\*   "ids":               matching_ids is a list, with the ids in `ids`
FilterKinds == {"client_error", "not_json", "json_non_object",
                "no_matching_ids", "ids_not_container", "ids"}

FilterResponses ==
    {[kind |-> k, ids |-> {}] : k \in FilterKinds \ {"ids"}}
    \cup {[kind |-> "ids", ids |-> S] : S \in SUBSET AllIds}

\* result.get('matching_ids', [])
MatchingIds(resp) == IF resp.kind = "no_matching_ids" THEN {} ELSE resp.ids

\* Evaluating `offer.get('id') in result.get('matching_ids', [])` raises
FilterTestRaises(resp) == resp.kind \in {"json_non_object", "ids_not_container"}

\* Faulty variant of FilterKeep: the matches are collected in the opposite
\* order (as when the result is built by walking the ids instead of the offers)
FilterKeepReversed(resp, offers) ==
    LET Match(o) == o.id \in MatchingIds(resp)
        kept == SelectSeq(offers, Match)
    IN [i \in 1..Len(kept) |-> kept[Len(kept) + 1 - i]]

FilterKeep(resp, offers) ==
    LET Match(o) == o.id \in MatchingIds(resp)
    IN SelectSeq(offers, Match)

\* filter_offers_with_llm(prompt, offers): the returned list and whether the
\* except branch ran (st.error).  The test of the comprehension is evaluated
\* once per offer, so it raises only for a non-empty list.
filter_offers_with_llm(resp, offers) ==
    IF resp.kind \in {"client_error", "not_json"}
    THEN [result |-> offers, error |-> TRUE]
    ELSE IF FilterTestRaises(resp) /\ offers # <<>>
    THEN [result |-> offers, error |-> TRUE]
    ELSE [result |-> FilterKeep(resp, offers), error |-> FALSE]

-----------------------------------------------------------------------------
(* Deterministic filters and sorter *)

\* datetime.strptime(to, "%Y-%m-%d %H:%M"): only a timestamp parses; the
\* sentinel "No end date" raises ValueError
strptime(to) ==
    IF to.kind = "date" THEN [raised |-> FALSE, t |-> to.t]
    ELSE [raised |-> TRUE, t |-> 0]

\* timedelta.days: whole days, rounded towards minus infinity
Days(hours) == hours \div HoursPerDay

\* The test of the 'Expiring Soon' comprehension for one offer:
\*   o.get('duration', {}).get('to') and (strptime(...) - now).days <= 7
\* A missing expiry is falsy and short-circuits; any string is truthy.
ExpiringTestRaises(o) == o.to.kind # "missing" /\ strptime(o.to).raised

ExpiringTest(o, now) ==
    /\ o.to.kind # "missing"
    /\ ~strptime(o.to).raised
    /\ Days(strptime(o.to).t - now) <= ExpiringDays

\* The 'Expiring Soon' comprehension over pending_offers: iterating None
\* raises TypeError, parsing the sentinel raises ValueError
ExpiringSoon(pending, now) ==
    IF ~pending.some THEN [raised |-> TRUE, result |-> None]
    ELSE IF \E i \in 1..Len(pending.v) : ExpiringTestRaises(pending.v[i])
    THEN [raised |-> TRUE, result |-> None]
    ELSE LET Keep(o) == ExpiringTest(o, now)
         IN [raised |-> FALSE, result |-> List(SelectSeq(pending.v, Keep))]

\* float(o.get('budget', 0)) > 50
HighValueTest(o) == (IF o.budget.has THEN o.budget.amount ELSE 0) > HighValueThreshold

\* The 'High Value' comprehension over pending_offers
HighValue(pending) ==
    IF ~pending.some THEN [raised |-> TRUE, result |-> None]
    ELSE [raised |-> FALSE, result |-> List(SelectSeq(pending.v, HighValueTest))]

\* The key function of the sort: for an offer with a truthy 'to' it calls
\* datetime.strptime with one argument, which raises TypeError; otherwise
\* the key is the string '9999-12-31'
SortKey(o) ==
    IF o.to.kind # "missing" THEN [raised |-> TRUE, key |-> 0]
    ELSE [raised |-> FALSE, key |-> FarFuture]

RECURSIVE InsertByKey(_, _)
InsertByKey(o, s) ==
    IF s = <<>> THEN <<o>>
    ELSE IF SortKey(o).key < SortKey(Head(s)).key THEN <<o>> \o s
    ELSE <<Head(s)>> \o InsertByKey(o, Tail(s))

RECURSIVE StableSort(_)
StableSort(s) ==
    IF s = <<>> THEN <<>>
    ELSE InsertByKey(s[Len(s)], StableSort(SubSeq(s, 1, Len(s) - 1)))

\* list.sort(key=...): the keys of all elements are computed first; when
\* one raises the list is left as it was
ListSort(s) ==
    IF \E i \in 1..Len(s) : SortKey(s[i]).raised
    THEN [raised |-> TRUE, result |-> s]
    ELSE [raised |-> FALSE, result |-> StableSort(s)]

\* Column 2 of the View Offers tab: pick the collection to display and sort
\* it in place
Display(pending, filtered) ==
    IF Truthy(filtered)
    THEN [crash |-> IF ListSort(filtered.v).raised THEN "sort" ELSE "none",
          pending_offers |-> pending,
          filtered_offers |-> List(ListSort(filtered.v).result)]
    ELSE IF Truthy(pending)
    THEN [crash |-> IF ListSort(pending.v).raised THEN "sort" ELSE "none",
          pending_offers |-> List(ListSort(pending.v).result),
          filtered_offers |-> filtered]
    ELSE [crash |-> "none", pending_offers |-> pending, filtered_offers |-> filtered]

-----------------------------------------------------------------------------
(* Offer extraction engine *)

\* Values json.loads can return for the draft, and None
Params(k, t, v, n, l) ==
    [kind |-> k, offer_type |-> t, value |-> v, offer_name |-> n, len |-> l]

NoParams == Params("None", FALSE, FALSE, 0, 0)
Obj(t, v, n) == Params("object", t, v, n, 0)    \* JSON object; n = 0: no offer_name
JsonList(l) == Params("list", FALSE, FALSE, 0, l)
JsonScalar == Params("scalar", FALSE, FALSE, 0, 0)
Garbage == Params("garbage", FALSE, FALSE, 0, 0) \* text that is not JSON

JsonValues ==
    {Obj(t, v, n) : t \in BOOLEAN, v \in BOOLEAN, n \in 0..1}
    \cup {JsonList(0), JsonList(1), JsonScalar}

\* Python truthiness of a draft value
TruthyParams(p) ==
    \/ p.kind = "object" /\ (p.offer_type \/ p.value \/ p.offer_name > 0)
    \/ p.kind = "list" /\ p.len > 0
    \/ p.kind = "scalar"

\* What the chat completion of a generate returns: the call raises, or it
\* returns content with no fence, a ```json fence or an unlabeled ``` fence
GenerateResponses ==
    {[call |-> "client_error", fence |-> "none", body |-> Garbage]}
    \cup [call : {"ok"}, fence : {"none", "json", "plain"},
          body : JsonValues \cup {Garbage}]

\* re.sub(r'```json\n?(.*?)\n?```', r'\1', content): removes a fence
\* labeled json and nothing else
StripFence(c) ==
    IF c.fence = "json" THEN [c EXCEPT !.fence = "none"] ELSE c

\* json.loads(content)
json_loads(c) ==
    IF c.fence = "none" /\ c.body.kind # "garbage"
    THEN [raised |-> FALSE, val |-> c.body]
    ELSE [raised |-> TRUE, val |-> NoParams]

\* dicts and lists have .copy(); numbers, strings, booleans, None do not
HasCopy(p) == p.kind \in {"object", "list"}

\* The try block of the Generate Offer handler: the draft after it and
\* whether the except branch ran
GenerateOffer(c, params, adjusted, created) ==
    IF c.call = "client_error" \/ json_loads(StripFence(c)).raised
    THEN [offer_params |-> params, adjusted_params |-> adjusted,
          offer_created |-> created, error |-> TRUE]
    ELSE IF ~HasCopy(json_loads(StripFence(c)).val)
    THEN [offer_params |-> json_loads(StripFence(c)).val,
          adjusted_params |-> adjusted,
          offer_created |-> created, error |-> TRUE]
    ELSE [offer_params |-> json_loads(StripFence(c)).val,
          adjusted_params |-> json_loads(StripFence(c)).val,
          offer_created |-> TRUE, error |-> FALSE]

\* The Offer Preview block: params.get on a list raises AttributeError,
\* params['value'] on an object without value raises KeyError
PreviewRaises(created, adjusted) ==
    /\ created
    /\ TruthyParams(adjusted)
    /\ (adjusted.kind # "object" \/ ~adjusted.value)

-----------------------------------------------------------------------------
(* Button handlers *)

Queries == {"", "food offers"}

\* Faulty variant of SearchOffers: the handler does not test pending_offers,
\* so the filter runs on None, fails inside its try block and returns a list
SearchOffersUnguarded(query, resp, pending, filtered) ==
    IF query # ""
    THEN [filtered_offers |-> List(filter_offers_with_llm(resp, pending.v).result),
          message |-> IF ~pending.some \/ filter_offers_with_llm(resp, pending.v).error
                      THEN "error" ELSE "none",
          llm |-> resp.kind]
    ELSE [filtered_offers |-> filtered, message |-> "none", llm |-> "none"]

\* The Search Offers handler: the new filtered_offers, the message shown and
\* what the language model call returned ("none" when it was not called)
SearchOffers(query, resp, pending, filtered) ==
    IF Truthy(pending) /\ query # ""
    THEN [filtered_offers |-> List(filter_offers_with_llm(resp, pending.v).result),
          message |-> IF filter_offers_with_llm(resp, pending.v).error
                      THEN "error" ELSE "none",
          llm |-> resp.kind]
    ELSE IF ~Truthy(pending)
    THEN [filtered_offers |-> filtered, message |-> "warning", llm |-> "none"]
    ELSE [filtered_offers |-> filtered, message |-> "none", llm |-> "none"]

\* The Refresh All Offers handler, up to st.rerun()
RefreshAllOffers(r, pending) ==
    [pending_offers |-> fetch_pending_offers(r, pending).pending_offers,
     filtered_offers |-> None,
     message |-> IF fetch_pending_offers(r, pending).error THEN "error" ELSE "none",
     remote |-> fetch_pending_offers(r, pending).why]

-----------------------------------------------------------------------------
(* Script runs *)

Init ==
    /\ offer_params = NoParams
    /\ offer_created = FALSE
    /\ adjusted_params = NoParams
    /\ pending_offers = None
    /\ filtered_offers = None
    /\ action = "load"
    /\ message = "none"
    /\ crash = "none"
    /\ llm = "none"
    /\ remote = "none"
    /\ fetched = AbsentField
    /\ prev_filtered = None

\* The buttons of the View Offers tab exist only if the previous run got
\* past the Offer Preview, and the run a click starts reaches their
\* handlers only if it gets past the Offer Preview again
Tab2Reached ==
    /\ crash # "preview"
    /\ ~PreviewRaises(offer_created, adjusted_params)

\* "Generate Offer": the handler, then (after st.rerun() on success, in the
\* same run on failure) the Offer Preview and the offer list
GenerateOfferClick(c) ==
    LET g == GenerateOffer(c, offer_params, adjusted_params, offer_created)
        d == Display(pending_offers, filtered_offers)
    IN /\ offer_params' = g.offer_params
       /\ adjusted_params' = g.adjusted_params
       /\ offer_created' = g.offer_created
       /\ message' = IF g.error THEN "error" ELSE "none"
       /\ llm' = IF c.call = "client_error" THEN "client_error"
                 ELSE IF json_loads(StripFence(c)).raised THEN "not_json"
                 ELSE "json"
       /\ IF PreviewRaises(g.offer_created, g.adjusted_params)
          THEN /\ crash' = "preview"
               /\ UNCHANGED <<pending_offers, filtered_offers>>
          ELSE /\ crash' = d.crash
               /\ pending_offers' = d.pending_offers
               /\ filtered_offers' = d.filtered_offers
       /\ action' = "generate"
       /\ remote' = "none"
       /\ fetched' = AbsentField
       /\ prev_filtered' = filtered_offers

\* "Search Offers": the handler, then the offer list
SearchOffersClick(query, resp) ==
    LET h == SearchOffers(query, resp, pending_offers, filtered_offers)
        d == Display(pending_offers, h.filtered_offers)
    IN /\ Tab2Reached
       /\ message' = h.message
       /\ llm' = h.llm
       /\ crash' = d.crash
       /\ pending_offers' = d.pending_offers
       /\ filtered_offers' = d.filtered_offers
       /\ action' = "search"
       /\ remote' = "none"
       /\ fetched' = AbsentField
       /\ prev_filtered' = filtered_offers
       /\ UNCHANGED draft_vars

\* "Refresh All Offers": the handler, then st.rerun() and the offer list of
\* the new run
RefreshAllOffersClick(r) ==
    LET h == RefreshAllOffers(r, pending_offers)
        d == Display(h.pending_offers, h.filtered_offers)
    IN /\ Tab2Reached
       /\ message' = h.message
       /\ remote' = h.remote
       /\ fetched' = IF h.remote = "ok" THEN r.offers ELSE AbsentField
       /\ crash' = d.crash
       /\ pending_offers' = d.pending_offers
       /\ filtered_offers' = d.filtered_offers
       /\ action' = "refresh"
       /\ llm' = "none"
       /\ prev_filtered' = filtered_offers
       /\ UNCHANGED draft_vars

\* "Expiring Soon": the comprehension, then the offer list unless the
\* comprehension raised
ExpiringSoonClick(now) ==
    LET e == ExpiringSoon(pending_offers, now)
        d == Display(pending_offers, e.result)
    IN /\ Tab2Reached
       /\ IF e.raised
          THEN /\ crash' = "expiring"
               /\ UNCHANGED <<pending_offers, filtered_offers>>
          ELSE /\ crash' = d.crash
               /\ pending_offers' = d.pending_offers
               /\ filtered_offers' = d.filtered_offers
       /\ action' = "expiring"
       /\ message' = "none"
       /\ llm' = "none"
       /\ remote' = "none"
       /\ fetched' = AbsentField
       /\ prev_filtered' = filtered_offers
       /\ UNCHANGED draft_vars

\* Faulty variant of HighValueClick: the comprehension runs over the
\* displayed collection (the previous filter result when there is one)
HighValueClickOnDisplayed ==
    LET e == HighValue(IF Truthy(filtered_offers) THEN filtered_offers
                       ELSE pending_offers)
        d == Display(pending_offers, e.result)
    IN /\ Tab2Reached
       /\ crash # "expiring"
       /\ IF e.raised
          THEN /\ crash' = "highvalue"
               /\ UNCHANGED <<pending_offers, filtered_offers>>
          ELSE /\ crash' = d.crash
               /\ pending_offers' = d.pending_offers
               /\ filtered_offers' = d.filtered_offers
       /\ action' = "highvalue"
       /\ message' = "none"
       /\ llm' = "none"
       /\ remote' = "none"
       /\ fetched' = AbsentField
       /\ prev_filtered' = filtered_offers
       /\ UNCHANGED draft_vars

\* "High Value (>$50)": this button comes after the Expiring Soon
\* comprehension in the script, so it exists only if the previous run got
\* past that
HighValueClick ==
    LET e == HighValue(pending_offers)
        d == Display(pending_offers, e.result)
    IN /\ Tab2Reached
       /\ crash # "expiring"
       /\ IF e.raised
          THEN /\ crash' = "highvalue"
               /\ UNCHANGED <<pending_offers, filtered_offers>>
          ELSE /\ crash' = d.crash
               /\ pending_offers' = d.pending_offers
               /\ filtered_offers' = d.filtered_offers
       /\ action' = "highvalue"
       /\ message' = "none"
       /\ llm' = "none"
       /\ remote' = "none"
       /\ fetched' = AbsentField
       /\ prev_filtered' = filtered_offers
       /\ UNCHANGED draft_vars

Next ==
    \/ \E c \in GenerateResponses : GenerateOfferClick(c)
    \/ \E q \in Queries, resp \in FilterResponses : SearchOffersClick(q, resp)
    \/ \E r \in RemoteResults : RefreshAllOffersClick(r)
    \/ \E now \in Nows : ExpiringSoonClick(now)
    \/ HighValueClick

Spec == Init /\ [][Next]_vars

\* The View Offers tab alone, with the draft left empty
BrowseNext ==
    \/ \E q \in Queries, resp \in FilterResponses : SearchOffersClick(q, resp)
    \/ \E r \in RemoteResults : RefreshAllOffersClick(r)
    \/ \E now \in Nows : ExpiringSoonClick(now)
    \/ HighValueClick

SpecBrowse == Init /\ [][BrowseNext]_vars

TypeOK ==
    /\ offer_params \in JsonValues \cup {NoParams}
    /\ adjusted_params \in JsonValues \cup {NoParams}
    /\ offer_created \in BOOLEAN
    /\ pending_offers \in {None} \cup {List(s) : s \in OfferSeqs}
    /\ filtered_offers \in {None} \cup {List(s) : s \in OfferSeqs}
    /\ crash \in {"none", "preview", "expiring", "highvalue", "sort"}
    /\ message \in {"none", "error", "warning"}

-----------------------------------------------------------------------------
(* Properties *)

Elems(s) == {s[i] : i \in 1..Len(s)}

QuickFilters == {"expiring", "highvalue"}

\* C1: the list a search stores is a subsequence of pending_offers, in the
\* original relative order, and every id in it is an id of pending_offers.
C1_FilterReturnsSubsequence ==
    (action = "search" /\ llm # "none") =>
        /\ filtered_offers.some
        /\ IsSubseq(filtered_offers.v, pending_offers.v)
        /\ Ids(filtered_offers.v) \subseteq Ids(pending_offers.v)

\* A search whose answer named both offers of a two-offer collection, in an
\* answer that also named an unknown id: both are kept, in the same order.
C1_Witness ==
    /\ action = "search"
    /\ llm = "ids"
    /\ Len(pending_offers.v) = 2
    /\ pending_offers.v[1] # pending_offers.v[2]
    /\ filtered_offers = pending_offers

\* C2 (as claimed): whenever the filter call fails in any way (the client
\* raises, the content is not JSON, the JSON has no usable matching_ids) the
\* search leaves filtered_offers equal to pending_offers.
C2_FailOpenOnEveryFailure ==
    (action = "search" /\ llm \in FilterKinds \ {"ids"}) =>
        filtered_offers = pending_offers

\* C3: a refresh that fails in authentication or listing leaves
\* pending_offers as it was and reports an error; a refresh whose two steps
\* succeed stores the fetched 'offers' field, the empty list when absent.
C3_RefreshKeepsOrReplaces ==
    [][action' = "refresh" =>
        /\ remote' # "ok" =>
              /\ pending_offers' = pending_offers
              /\ message' = "error"
        /\ remote' = "ok" =>
              pending_offers' = IF fetched'.present THEN fetched'.val
                                ELSE List(<<>>)]_vars

\* A refresh that failed while a non-empty collection was held.
C3_Witness ==
    /\ action = "refresh"
    /\ remote \in {"auth_failed", "auth_malformed", "listing_failed",
                   "listing_malformed"}
    /\ message = "error"
    /\ Truthy(pending_offers)

\* C4: a search while pending_offers is None warns, calls no language
\* model and changes neither collection nor the draft.
C4_SearchWhenUnloaded ==
    [][(pending_offers = None /\ action' = "search") =>
        /\ message' = "warning"
        /\ llm' = "none"
        /\ pending_offers' = None
        /\ filtered_offers' = None
        /\ filtered_offers = None
        /\ UNCHANGED draft_vars]_vars

\* A search was the last action and nothing is loaded.
C4_Witness ==
    /\ action = "search"
    /\ message = "warning"
    /\ llm = "none"
    /\ pending_offers = None
    /\ filtered_offers = None

\* C5 (as claimed): a quick filter while pending_offers is None does not
\* raise, warns, and leaves both collections unchanged.
C5_QuickFilterWhenUnloaded ==
    (action \in QuickFilters /\ pending_offers = None) =>
        /\ crash \notin QuickFilters
        /\ message = "warning"
        /\ filtered_offers = prev_filtered

\* C6: filtered_offers, when set, is a part of pending_offers; a search or a
\* quick filter that completes computes it from pending_offers; a refresh
\* resets it to None.
FilteredWithinPending ==
    filtered_offers.some =>
        /\ pending_offers.some
        /\ IsSubseq(filtered_offers.v, pending_offers.v)

FilteredFromBase ==
    /\ (action' = "highvalue" /\ crash' # "highvalue") =>
          filtered_offers' = HighValue(pending_offers).result
    /\ (action' = "expiring" /\ crash' # "expiring") =>
          \E now \in Nows : filtered_offers' = ExpiringSoon(pending_offers, now).result
    /\ (action' = "search" /\ llm' # "none") =>
          \E S \in SUBSET AllIds :
              filtered_offers' =
                  List(filter_offers_with_llm([kind |-> llm', ids |-> S],
                                              pending_offers.v).result)
    /\ action' = "refresh" => filtered_offers' = None

C6_FilteredDerivedFromBase ==
    [](FilteredWithinPending) /\ [][FilteredFromBase]_vars

\* A High Value filter taken over an earlier filter result kept an offer
\* that the earlier result did not contain.
C6_Witness ==
    /\ action = "highvalue"
    /\ crash # "highvalue"
    /\ Truthy(prev_filtered)
    /\ Truthy(filtered_offers)
    /\ \E o \in Elems(filtered_offers.v) : o \notin Elems(prev_filtered.v)

\* C7 (as claimed): a generate that ends in the error branch leaves
\* offer_params, adjusted_params and offer_created as they were.
C7_FailedGenerateKeepsDraft ==
    [][(action' = "generate" /\ message' = "error") => UNCHANGED draft_vars]_vars

\* C8 (as claimed): the draft is previewed (offer_created with
\* adjusted_params set) only with parameters that have offer_type and value.
C8_PreviewedHasRequiredFields ==
    (offer_created /\ adjusted_params # NoParams) =>
        /\ adjusted_params.kind = "object"
        /\ adjusted_params.offer_type
        /\ adjusted_params.value

\* C9 (as claimed): Expiring Soon on a loaded collection does not raise and
\* keeps exactly the offers with a timestamp at most 7 whole days ahead;
\* offers without expiry or with the sentinel are dropped.
ExpiringAsSpecified(offers, now) ==
    LET Keep(o) == o.to.kind = "date" /\ Days(o.to.t - now) <= ExpiringDays
    IN SelectSeq(offers, Keep)

C9_ExpiringSoonWindow ==
    (action = "expiring" /\ pending_offers.some) =>
        /\ crash # "expiring"
        /\ \E now \in Nows :
              filtered_offers = List(ExpiringAsSpecified(pending_offers.v, now))

\* C10 (as claimed): the sort of the displayed collection never raises and
\* leaves it ordered by expiry, offers without expiry last.
Displayed ==
    IF Truthy(filtered_offers) THEN filtered_offers.v
    ELSE IF Truthy(pending_offers) THEN pending_offers.v
    ELSE <<>>

ExpiryRank(o) == IF o.to.kind = "date" THEN o.to.t ELSE FarFuture

C10_SortByExpiry ==
    /\ crash # "sort"
    /\ crash = "none" =>
          \A i, j \in 1..Len(Displayed) :
              i < j => ExpiryRank(Displayed[i]) <= ExpiryRank(Displayed[j])

====
